---------------------------- MODULE Spec2Model ----------------------------
(***************************************************************************)
(* Derivative-based regular expressions (regexp.py): the regex algebra,    *)
(* Sequence.simplify, Regex.match, the recursive-descent RegexParser and   *)
(* the random generation walk Regex.random_match.                          *)
(*                                                                         *)
(* A Regex value is a tagged tuple:                                        *)
(*   <<"Empty">>  <<"Null">>  <<"Char", c>>  <<"Choice", left, right>>     *)
(*   <<"Sequence", elements>>  <<"Repeat", regex>>                         *)
(* so that TLA+ equality of two values is the structural equality of       *)
(* Regex.__eq__ (same class, same fields).  A string is a sequence of      *)
(* one-character strings.                                                  *)
(***************************************************************************)
EXTENDS Integers, Sequences, FiniteSets, TLC

VARIABLES
    pc,          \* position of the run: which operation has been applied
    re,          \* the Regex value the operation is applied to
    str,         \* the candidate string given to match
    matched,     \* result of match / of simplify().match
    simplified,  \* result of simplify
    chars,       \* result of next_chars
    self,        \* random_match: the residual regex of the current call
    out,         \* random_match: the characters emitted so far
    length,      \* random_match: the remaining length budget (None if absent)
    length0,     \* random_match: the length argument of the outermost call
    stop_p,      \* random_match: stop probability, in percent
    pattern,     \* parse: the pattern string handed to parse
    text         \* RegexParser.text: the input not yet consumed

vars == <<pc, re, str, matched, simplified, chars, self, out, length,
          length0, stop_p, pattern, text>>

(***************************************************************************)
(* Bounds of the model.                                                    *)
(***************************************************************************)
\* longest candidate string given to match
MaxLen == 3
\* longest pattern string given to parse
MaxPat == 4
\* largest length argument given to random_match
MaxLength == 2
\* depth at which the recursion of random_match exhausts the interpreter's
\* stack (CPython raises RecursionError); scaled down
RecursionLimit == 5

\* `length=None`: no length budget
None == -1

Alphabet == {"a", "b"}

(***************************************************************************)
(* The six variants.                                                       *)
(***************************************************************************)
Empty == <<"Empty">>
Null == <<"Null">>
Char(char) == <<"Char", char>>
Choice(left, right) == <<"Choice", left, right>>
Sequence(elements) == <<"Sequence", elements>>
Repeat(regex) == <<"Repeat", regex>>

isinstance(r, cls) == r[1] = cls

RECURSIVE matches_empty(_)
RECURSIVE derivative(_, _)
RECURSIVE next_chars(_)

(***************************************************************************)
(* Sequence.simplify: the for loop over self.elements, then the three      *)
(* returns.                                                                *)
(***************************************************************************)
RECURSIVE simplify_loop(_, _)
\* simplify that skips a Null element as it skips an Empty one
simplify_loop_skips_null(rest, elements) ==
    IF rest = <<>>
    THEN IF Len(elements) = 0 THEN Empty
         ELSE IF Len(elements) = 1 THEN elements[1]
         ELSE Sequence(elements)
    ELSE LET el == Head(rest) IN
         IF isinstance(el, "Null") \/ isinstance(el, "Empty")
         THEN simplify_loop(Tail(rest), elements)
         ELSE IF isinstance(el, "Sequence")
              THEN simplify_loop(Tail(rest), elements \o el[2])
              ELSE simplify_loop(Tail(rest), Append(elements, el))

simplify_loop(rest, elements) ==
    IF rest = <<>>
    THEN IF Len(elements) = 0 THEN Empty
         ELSE IF Len(elements) = 1 THEN elements[1]
         ELSE Sequence(elements)
    ELSE LET el == Head(rest) IN
         IF isinstance(el, "Null") THEN Null
         ELSE IF isinstance(el, "Empty") THEN simplify_loop(Tail(rest), elements)
         ELSE IF isinstance(el, "Sequence")
              THEN simplify_loop(Tail(rest), elements \o el[2])
              ELSE simplify_loop(Tail(rest), Append(elements, el))

simplify(r) == simplify_loop(r[2], <<>>)

\* Sequence.head
head(r) == IF r[2] = <<>> THEN Empty ELSE r[2][1]

\* Sequence.tail
tail(r) ==
    IF r[2] = <<>> \/ Len(r[2]) = 1 THEN Empty
    ELSE simplify(Sequence(Tail(r[2])))

\* matches_empty of each class (Empty and Repeat inherit Regex.matches_empty)
matches_empty(r) ==
    CASE isinstance(r, "Empty") -> TRUE
      [] isinstance(r, "Null") -> FALSE
      [] isinstance(r, "Char") -> FALSE
      [] isinstance(r, "Choice") -> matches_empty(r[2]) \/ matches_empty(r[3])
      [] isinstance(r, "Sequence") ->
            \A i \in 1..Len(r[2]) : matches_empty(r[2][i])
      [] isinstance(r, "Repeat") -> TRUE

\* Sequence.derivative without the case of head matching the empty string
Sequence_derivative_head_only(r, c) ==
    simplify(Sequence(<<derivative(head(r), c), tail(r)>>))

\* Sequence.derivative
Sequence_derivative(r, c) ==
    LET h == head(r)
        t == tail(r)
        head_derivative == simplify(Sequence(<<derivative(h, c), t>>))
    IN  IF matches_empty(h)
        THEN Choice(derivative(t, c), head_derivative)
        ELSE head_derivative

\* derivative of each class (Empty and Null inherit Regex.derivative)
derivative(r, c) ==
    CASE isinstance(r, "Empty") -> Null
      [] isinstance(r, "Null") -> Null
      [] isinstance(r, "Char") -> IF r[2] = c THEN Empty ELSE Null
      [] isinstance(r, "Choice") -> Choice(derivative(r[2], c), derivative(r[3], c))
      [] isinstance(r, "Sequence") -> Sequence_derivative(r, c)
      [] isinstance(r, "Repeat") -> Sequence(<<derivative(r[2], c), Repeat(r[2])>>)

\* Sequence.next_chars that looks into the tail whatever head matches
Sequence_next_chars_always_tail(r) ==
    next_chars(head(r)) \cup next_chars(tail(r))

\* Sequence.next_chars
Sequence_next_chars(r) ==
    LET h == head(r) IN
    IF matches_empty(h)
    THEN next_chars(h) \cup next_chars(tail(r))
    ELSE next_chars(h)

\* next_chars of each class (Empty and Null inherit Regex.next_chars)
next_chars(r) ==
    CASE isinstance(r, "Empty") -> {}
      [] isinstance(r, "Null") -> {}
      [] isinstance(r, "Char") -> {r[2]}
      [] isinstance(r, "Choice") -> next_chars(r[2]) \cup next_chars(r[3])
      [] isinstance(r, "Sequence") -> Sequence_next_chars(r)
      [] isinstance(r, "Repeat") -> next_chars(r[2])

\* Regex.match: fold derivative over s, then matches_empty
RECURSIVE match(_, _)
match(r, s) ==
    IF s = <<>> THEN matches_empty(r)
    ELSE match(derivative(r, Head(s)), Tail(s))

(***************************************************************************)
(* The Regex values and strings the operations are applied to.             *)
(***************************************************************************)
Leaves == {Empty, Null} \cup {Char(c) : c \in Alphabet}

\* every value built by one constructor from the values of S
Compose(S) ==
    S \cup {Choice(l, r) : l \in S, r \in S}
      \cup {Repeat(r) : r \in S}
      \cup {Sequence(<<>>)}
      \cup {Sequence(<<x>>) : x \in S}
      \cup {Sequence(<<x, y>>) : x \in S, y \in S}

\* Sequences nested three deep: a Sequence of Leaves inside a Sequence
\* inside a Sequence
NestedSequences ==
    LET inner == {r \in Compose(Leaves) : isinstance(r, "Sequence")}
        middle == {Sequence(<<s>>) : s \in inner}
                    \cup {Sequence(<<s, l>>) : s \in inner, l \in Leaves}
    IN  {Sequence(<<m>>) : m \in middle}
          \cup {Sequence(<<m, l>>) : m \in middle, l \in Leaves}
          \cup {Sequence(<<l, m>>) : m \in middle, l \in Leaves}

Regexes == Compose(Compose(Leaves)) \cup NestedSequences

StringsUpTo(n) == UNION {[1..k -> Alphabet] : k \in 0..n}

(***************************************************************************)
(* Reference semantics: the language of a regex.                           *)
(***************************************************************************)
RECURSIVE InLanguage(_, _)
RECURSIVE InConcat(_, _)
\* s is a concatenation of one string of each element of els, in order
InConcat(els, s) ==
    IF els = <<>> THEN s = <<>>
    ELSE \E k \in 0..Len(s) :
            /\ InLanguage(els[1], SubSeq(s, 1, k))
            /\ InConcat(Tail(els), SubSeq(s, k + 1, Len(s)))

InLanguage(r, s) ==
    CASE isinstance(r, "Empty") -> s = <<>>
      [] isinstance(r, "Null") -> FALSE
      [] isinstance(r, "Char") -> s = <<r[2]>>
      [] isinstance(r, "Choice") -> InLanguage(r[2], s) \/ InLanguage(r[3], s)
      [] isinstance(r, "Sequence") -> InConcat(r[2], s)
      [] isinstance(r, "Repeat") ->
            \/ s = <<>>
            \/ \E k \in 1..Len(s) :
                  /\ InLanguage(r[2], SubSeq(s, 1, k))
                  /\ InLanguage(r, SubSeq(s, k + 1, Len(s)))

\* the language of r is not empty
RECURSIVE NonEmptyLanguage(_)
NonEmptyLanguage(r) ==
    CASE isinstance(r, "Null") -> FALSE
      [] isinstance(r, "Choice") -> NonEmptyLanguage(r[2]) \/ NonEmptyLanguage(r[3])
      [] isinstance(r, "Sequence") ->
            \A i \in 1..Len(r[2]) : NonEmptyLanguage(r[2][i])
      [] OTHER -> TRUE

(***************************************************************************)
(* SpecAlg: one operation of the algebra applied to a value.               *)
(***************************************************************************)
IdleWalk ==
    /\ self = Empty /\ out = <<>> /\ length = None /\ length0 = None
    /\ stop_p = 0
IdleParse == pattern = <<>> /\ text = <<>>
IdleAlg ==
    /\ str = <<>> /\ matched = FALSE /\ simplified = Empty /\ chars = {}

InitAlg ==
    /\ pc = "init"
    /\ re \in Regexes
    /\ str \in StringsUpTo(MaxLen)
    /\ matched = FALSE /\ simplified = Empty /\ chars = {}
    /\ IdleWalk /\ IdleParse

\* re.match(str)
Match ==
    /\ pc = "init"
    /\ pc' = "match"
    /\ matched' = match(re, str)
    /\ UNCHANGED <<re, str, simplified, chars, self, out, length, length0,
                   stop_p, pattern, text>>

\* re.simplify()
Simplify ==
    /\ pc = "init"
    /\ isinstance(re, "Sequence")
    /\ pc' = "simplify"
    /\ simplified' = simplify(re)
    /\ UNCHANGED <<re, str, matched, chars, self, out, length, length0,
                   stop_p, pattern, text>>

\* re.simplify().match(str)
SimplifyMatch ==
    /\ pc = "init"
    /\ isinstance(re, "Sequence")
    /\ pc' = "simplify_match"
    /\ simplified' = simplify(re)
    /\ matched' = match(simplify(re), str)
    /\ UNCHANGED <<re, str, chars, self, out, length, length0,
                   stop_p, pattern, text>>

\* re.next_chars()
NextChars ==
    /\ pc = "init"
    /\ pc' = "next_chars"
    /\ chars' = next_chars(re)
    /\ UNCHANGED <<re, str, matched, simplified, self, out, length, length0,
                   stop_p, pattern, text>>

NextAlg == Match \/ Simplify \/ SimplifyMatch \/ NextChars

SpecAlg == InitAlg /\ [][NextAlg]_vars


(***************************************************************************)
(* SpecGen: Regex.random_match(stop_p, length) on a value re.  Each call   *)
(* of the recursion is one step: it returns "" (the walk is done and out   *)
(* is the string returned by the outermost call) or emits one character    *)
(* and recurses on the derivative.                                         *)
(***************************************************************************)
\* the default of stop_p, 0.10, in percent
DefaultStopP == 10
\* stop_p in percent: 0.0, the default and 1.0
StopPs == {0, DefaultStopP, 100}
\* values of random.random(), in percent: a float of [0.0, 1.0)
RandomDraws == {0, 50, 99}
Lengths == {None} \cup (0..MaxLength)

InitGen ==
    /\ pc = "run"
    /\ re \in Regexes
    /\ self = re
    /\ out = <<>>
    /\ length \in Lengths
    /\ length0 = length
    /\ stop_p \in StopPs
    /\ IdleAlg /\ IdleParse

\* `if length == 0: return ""` under `if self.matches_empty()`
StopBudget ==
    /\ pc = "run"
    /\ matches_empty(self)
    /\ length = 0
    /\ pc' = "done"
    /\ UNCHANGED <<re, str, matched, simplified, chars, self, out, length,
                   length0, stop_p, pattern, text>>

\* `if random.random() < stop_p: return ""` under `if self.matches_empty()`
StopRandom ==
    /\ pc = "run"
    /\ matches_empty(self)
    /\ length # 0
    /\ \E rnd \in RandomDraws : rnd < stop_p
    /\ pc' = "done"
    /\ UNCHANGED <<re, str, matched, simplified, chars, self, out, length,
                   length0, stop_p, pattern, text>>

\* the call gets past the `if self.matches_empty()` block
PastStop ==
    \/ ~matches_empty(self)
    \/ /\ length # 0
       /\ \E rnd \in RandomDraws : ~(rnd < stop_p)

\* `if not choices: return ""`
StopNoChoices ==
    /\ pc = "run"
    /\ PastStop
    /\ next_chars(self) = {}
    /\ pc' = "done"
    /\ UNCHANGED <<re, str, matched, simplified, chars, self, out, length,
                   length0, stop_p, pattern, text>>

\* Emit that decrements length without the `length > 0` test
Emit_unguarded_decrement(next) ==
    /\ pc = "run"
    /\ PastStop
    /\ next \in next_chars(self)
    /\ Len(out) < RecursionLimit
    /\ length' = IF length # None THEN length - 1 ELSE length
    /\ out' = Append(out, next)
    /\ self' = derivative(self, next)
    /\ UNCHANGED <<pc, re, str, matched, simplified, chars, length0, stop_p,
                   pattern, text>>

\* Emit that recurses on self instead of self.derivative(next)
Emit_same_regex(next) ==
    /\ pc = "run"
    /\ PastStop
    /\ next \in next_chars(self)
    /\ Len(out) < RecursionLimit
    /\ length' = IF length # None /\ length > 0 THEN length - 1 ELSE length
    /\ out' = Append(out, next)
    /\ self' = self
    /\ UNCHANGED <<pc, re, str, matched, simplified, chars, length0, stop_p,
                   pattern, text>>

\* `next = random.choice(list(choices))`, the decrement of length and the
\* recursive call on self.derivative(next)
Emit(next) ==
    /\ pc = "run"
    /\ PastStop
    /\ next \in next_chars(self)
    /\ Len(out) < RecursionLimit
    /\ length' = IF length # None /\ length > 0 THEN length - 1 ELSE length
    /\ out' = Append(out, next)
    /\ self' = derivative(self, next)
    /\ UNCHANGED <<pc, re, str, matched, simplified, chars, length0, stop_p,
                   pattern, text>>

\* the recursive call at the depth where the interpreter's stack is
\* exhausted: random_match fails with RecursionError
Overflow ==
    /\ pc = "run"
    /\ PastStop
    /\ next_chars(self) # {}
    /\ Len(out) = RecursionLimit
    /\ pc' = "error"
    /\ UNCHANGED <<re, str, matched, simplified, chars, self, out, length,
                   length0, stop_p, pattern, text>>

NextGen ==
    \/ StopBudget
    \/ StopRandom
    \/ StopNoChoices
    \/ \E next \in Alphabet : Emit(next)
    \/ Overflow

SpecGen == InitGen /\ [][NextGen]_vars


(***************************************************************************)
(* RegexParser.  The state of a parse is a record: text (the parser's      *)
(* text, the input not yet consumed), val (the value the last method       *)
(* returned) and ok (FALSE once an exception has been raised, which ends   *)
(* the parse: every method passes a failed state on unchanged).            *)
(***************************************************************************)
\* RegexParser(text)
RegexParser(t) == [ok |-> TRUE, val |-> Empty, text |-> t]

\* an exception leaves the method: IndexError in next, ValueError in eat
Raise(p) == [p EXCEPT !.ok = FALSE, !.val = Null]

\* a method returns v
Return(p, v) == IF ~p.ok THEN p ELSE [p EXCEPT !.val = v]

\* RegexParser.peek ("None" stands for Python's None)
RegexParser_peek(p) == IF Len(p.text) = 0 THEN "None" ELSE p.text[1]

\* RegexParser.next: self.text[0] raises IndexError on an empty text
RegexParser_next(p) ==
    IF ~p.ok THEN p
    ELSE IF Len(p.text) = 0 THEN Raise(p)
    ELSE [p EXCEPT !.val = p.text[1], !.text = Tail(p.text)]

\* RegexParser.eat (it returns nothing: val is left as it was)
RegexParser_eat(p, item) ==
    IF ~p.ok THEN p
    ELSE IF Len(p.text) = 0 THEN Raise(p)
    ELSE IF p.text[1] # item THEN Raise([p EXCEPT !.text = Tail(p.text)])
    ELSE [p EXCEPT !.text = Tail(p.text)]

RECURSIVE RegexParser_regex(_)
RECURSIVE RegexParser_term(_, _)
RECURSIVE RegexParser_factor(_)
RECURSIVE RegexParser_base(_)

\* RegexParser.regex, `return Choice(term, regex)`
regex_choice(term, regex) ==
    IF ~regex.ok THEN regex ELSE Return(regex, Choice(term, regex.val))

\* RegexParser.regex, after `term = self.term()`
regex_rest(term) ==
    IF ~term.ok THEN term
    ELSE IF RegexParser_peek(term) = "|"
    THEN regex_choice(term.val, RegexParser_regex(RegexParser_eat(term, "|")))
    ELSE term

\* RegexParser.regex
RegexParser_regex(p) == regex_rest(RegexParser_term(<<>>, p))

\* RegexParser.term, `factors.add(factor)` and the next turn of the loop
term_add(factors, factor) ==
    IF ~factor.ok THEN factor
    ELSE RegexParser_term(Append(factors, factor.val), factor)

\* RegexParser.term: the while loop that adds factors to Sequence(), then
\* `return factors.simplify()`
RegexParser_term(factors, p) ==
    IF ~p.ok THEN p
    ELSE IF /\ RegexParser_peek(p) # "None"
            /\ RegexParser_peek(p) # ")"
            /\ RegexParser_peek(p) # "|"
    THEN term_add(factors, RegexParser_factor(p))
    ELSE Return(p, simplify(Sequence(factors)))

\* RegexParser.factor, after `base = self.base()`
factor_rest(base) ==
    IF ~base.ok THEN base
    ELSE IF RegexParser_peek(base) = "*"
    THEN Return(RegexParser_eat(base, "*"), Repeat(base.val))
    ELSE IF RegexParser_peek(base) = "+"
    THEN Return(RegexParser_eat(base, "+"),
                Sequence(<<base.val, Repeat(base.val)>>))
    ELSE base

\* RegexParser.factor
RegexParser_factor(p) == factor_rest(RegexParser_base(p))

\* `return Char(self.next())`
Char_next(n) == IF ~n.ok THEN n ELSE Return(n, Char(n.val))

\* RegexParser.base
RegexParser_base(p) ==
    IF ~p.ok THEN p
    ELSE IF RegexParser_peek(p) = "\\"
    THEN Char_next(RegexParser_next(RegexParser_eat(p, "\\")))
    ELSE IF RegexParser_peek(p) = "("
    THEN RegexParser_eat(RegexParser_regex(RegexParser_eat(p, "(")), ")")
    ELSE Char_next(RegexParser_next(p))

\* parse(re): RegexParser(re).regex()
parse(p) == RegexParser_regex(RegexParser(p))

(***************************************************************************)
(* SpecParse: parse(pattern), then random_match on the regex it returns    *)
(* (what the command line does with its argument).                         *)
(***************************************************************************)
PatternChars == Alphabet \cup {"(", ")", "|", "*", "+", "\\"}
Patterns == UNION {[1..k -> PatternChars] : k \in 0..MaxPat}

InitParse ==
    /\ pc = "parse"
    /\ pattern \in Patterns
    /\ text = pattern
    /\ re = Empty
    /\ IdleAlg /\ IdleWalk

\* parse returns a regex; random_match is then called on it, with the
\* default stop_p
ParseReturn ==
    /\ pc = "parse"
    /\ parse(pattern).ok
    /\ pc' = "run"
    /\ text' = parse(pattern).text
    /\ re' = parse(pattern).val
    /\ self' = parse(pattern).val
    /\ out' = <<>>
    /\ \E l \in Lengths : length' = l /\ length0' = l
    /\ stop_p' = DefaultStopP
    /\ UNCHANGED <<str, matched, simplified, chars, pattern>>

\* parse fails with an exception
ParseRaise ==
    /\ pc = "parse"
    /\ ~parse(pattern).ok
    /\ pc' = "parse_error"
    /\ text' = parse(pattern).text
    /\ UNCHANGED <<re, str, matched, simplified, chars, self, out, length,
                   length0, stop_p, pattern>>

NextParse ==
    \/ ParseReturn
    \/ ParseRaise
    \/ StopBudget
    \/ StopRandom
    \/ StopNoChoices
    \/ \E next \in Alphabet : Emit(next)
    \/ Overflow

SpecParse == InitParse /\ [][NextParse]_vars


(***************************************************************************)
(* Properties.                                                             *)
(***************************************************************************)
Prefix(s, k) == SubSeq(s, 1, k)

\* C1: generator soundness: the string random_match returns, for any regex,
\* stop_p and length, is matched by the regex it was generated from.
C1_GeneratorSound == pc = "done" => match(re, out)

\* C2: match agrees with the language semantics: re.match(str) is True
\* exactly when str is in the language of re.
C2_MatchIsLanguage == pc = "match" => (matched <=> InLanguage(re, str))

C2_Witness ==
    /\ pc = "match" /\ matched
    /\ isinstance(re, "Sequence") /\ Len(re[2]) = 2
    /\ isinstance(re[2][1], "Repeat")
    /\ Len(str) >= 2

\* C3: next_chars is exact: a character is in re.next_chars() exactly when
\* re.derivative(c) accepts at least one string.
C3_NextCharsExact ==
    pc = "next_chars" =>
        \A c \in Alphabet : c \in chars <=> NonEmptyLanguage(derivative(re, c))

\* C4: simplification preserves the language: for a Sequence re,
\* re.simplify().match(str) equals re.match(str).
C4_SimplifyPreservesMatch == pc = "simplify_match" => (matched <=> match(re, str))

C4_Witness ==
    /\ pc = "simplify_match" /\ matched
    /\ simplified # re
    /\ \E i \in 1..Len(re[2]) : isinstance(re[2][i], "Sequence")
    /\ Len(str) >= 2

\* simplify, taken as the identity on a value that is not a Sequence
simplify_or_same(r) == IF isinstance(r, "Sequence") THEN simplify(r) ELSE r

\* C5: simplification is idempotent: simplifying re.simplify() again gives
\* a regex structurally equal to re.simplify().
C5_SimplifyIdempotent ==
    pc = "simplify" => simplify_or_same(simplified) = simplified

\* p[i..] has an unescaped "(" that no later unescaped ")" closes, given
\* that open "(" are pending before position i
RECURSIVE UnmatchedOpen(_, _, _)
UnmatchedOpen(p, i, open) ==
    IF i > Len(p) THEN open > 0
    ELSE IF p[i] = "\\" THEN UnmatchedOpen(p, i + 2, open)
    ELSE IF p[i] = "(" THEN UnmatchedOpen(p, i + 1, open + 1)
    ELSE IF p[i] = ")" /\ open > 0 THEN UnmatchedOpen(p, i + 1, open - 1)
    ELSE UnmatchedOpen(p, i + 1, open)

\* C6: parse rejects unbalanced parentheses: a pattern with an unescaped
\* "(" that has no matching unescaped ")" after it makes parse fail.
C6_RejectsUnbalanced ==
    (pc # "parse" /\ UnmatchedOpen(pattern, 1, 0)) => pc = "parse_error"

\* r has a Repeat sub-term
RECURSIVE HasRepeat(_)
HasRepeat(r) ==
    CASE isinstance(r, "Repeat") -> TRUE
      [] isinstance(r, "Choice") -> HasRepeat(r[2]) \/ HasRepeat(r[3])
      [] isinstance(r, "Sequence") -> \E i \in 1..Len(r[2]) : HasRepeat(r[2][i])
      [] OTHER -> FALSE

\* the number of characters of the longest concatenation the structure of
\* a Repeat-free r allows
RECURSIVE SumChars(_)
RECURSIVE MaxChars(_)
SumChars(els) ==
    IF els = <<>> THEN 0 ELSE MaxChars(Head(els)) + SumChars(Tail(els))

MaxChars(r) ==
    CASE isinstance(r, "Char") -> 1
      [] isinstance(r, "Choice") ->
            IF MaxChars(r[2]) >= MaxChars(r[3]) THEN MaxChars(r[2])
            ELSE MaxChars(r[3])
      [] isinstance(r, "Sequence") -> SumChars(r[2])
      [] OTHER -> 0

C8_LengthBudget ==
    length0 # None =>
        /\ length = (IF length0 >= Len(out) THEN length0 - Len(out) ELSE 0)
        /\ \A k \in length0..(Len(out) - 1) : ~match(re, Prefix(out, k))
        /\ (pc = "done" /\ length0 = 0 /\ matches_empty(re)) => out = <<>>

C8_Witness ==
    /\ pc = "done" /\ length0 = 1 /\ length = 0
    /\ Len(out) >= 3
    /\ match(re, out)
    /\ stop_p = 0

\* C9: parse consumes the whole pattern: when parse returns a regex the
\* parser's remaining input is empty.
C9_ConsumesAll == pc \in {"run", "done", "error"} => text = <<>>

\* C10: the walk from a parsed pattern never gets stuck in a rejecting
\* state: a residual that does not match empty has a next character.
C10_NeverStuck ==
    (pc = "run" /\ ~matches_empty(self)) => next_chars(self) # {}

C10_Witness ==
    /\ pc = "run" /\ pattern # <<>>
    /\ Len(out) >= 2
    /\ ~matches_empty(self)
    /\ isinstance(re, "Sequence")

=============================================================================
